---- MODULE Spec2Model ----
(***************************************************************************)
(* State-machine model of the DRV2605L haptic driver: the blocking driver  *)
(* (blocking.rs), the async driver (async_i2c.rs) and the heartbeat        *)
(* extensions of both (heartbeat.rs), running against an I2C device that   *)
(* is a register store whose GO bit the chip clears on its own and whose   *)
(* transactions may fail.                                                  *)
(*                                                                         *)
(* Every driver function is modelled as the sequence of instructions it    *)
(* executes (register write, register read, timed wait, early return);     *)
(* the actions execute one instruction at a time, which is one I2C         *)
(* transaction or one Timer wait, the points at which the code suspends.   *)
(***************************************************************************)
EXTENDS Integers, Sequences, FiniteSets, TLC

VARIABLES
    strategy,     \* which driver type was constructed: "blocking" or "async"
    motor_type,   \* Drv2605l.motor_type
    regs,         \* the chip's registers, by address
    op,           \* the public operation in progress, or the last one called
    at,           \* where the operation stands
    pc,           \* index of the next instruction of the block being executed
    current,      \* the byte the last read_register returned
    timeout,      \* auto_calibrate's local
    cycle_ms,     \* play_custom_heartbeat's locals
    systole_ms,
    diastole_ms,
    cycles,       \* completed heartbeat cycles of the running operation
    trace,        \* transactions and waits issued by the operation, in order
    result,       \* outcome of the operation
    retval,       \* value carried by an Ok outcome (is_playing, get_device_id)
    nops          \* operations called so far on this driver

vars == <<strategy, motor_type, regs, op, at, pc, current, timeout, cycle_ms,
          systole_ms, diastole_ms, cycles, trace, result, retval, nops>>

----------------------------------------------------------------------------
(* Bounds of the model. *)

\* operations called one after the other on one driver
MaxOps == 2
\* heartbeat cycles followed before the model stops unrolling the loop
MaxCycles == 2
\* largest in-range-or-not waveform slot tried besides 255
MaxSlot == 9
\* millivolt arguments 0..MaxMv are all tried, besides larger u16 values
MaxMv == 5700

----------------------------------------------------------------------------
(* Register addresses, enum codes and literals of the source. *)

STATUS == 0
MODE == 1
RTP_INPUT == 2
LIBRARY_SELECTION == 3
WAVEFORM_SEQUENCER_1 == 4
WAVEFORM_SEQUENCER_8 == 11
GO == 12
RATED_VOLTAGE == 22
OVERDRIVE_CLAMP_VOLTAGE == 23
FEEDBACK_CONTROL == 26

InternalTrigger == 0
RealTimePlayback == 5
AutoCalibration == 7

LibraryB == 2
LibraryLRA == 6

StrongClick100 == 1
StrongClick60 == 2
DoubleClick100 == 10

\* let mut timeout = 100;
CalibrationTimeout == 100
\* Timer::after(Duration::from_millis(10)) in the calibration loop
CalibrationPollMs == 10
\* Timer::after(Duration::from_millis(2)) in async init
ResetSettleMs == 2

Byte == 0..255
Modes == 0..7
MotorTypes == {"ERM", "LRA"}
Strategies == {"blocking", "async"}
Registers == {STATUS, MODE, RTP_INPUT, LIBRARY_SELECTION, GO, RATED_VOLTAGE,
              OVERDRIVE_CLAMP_VOLTAGE, FEEDBACK_CONTROL}
             \cup (WAVEFORM_SEQUENCER_1..WAVEFORM_SEQUENCER_8)

----------------------------------------------------------------------------
(* u8 bit operations. *)

RECURSIVE BitAnd(_, _)
BitAnd(a, b) ==
    IF a = 0 \/ b = 0 THEN 0
    ELSE (a % 2) * (b % 2) + 2 * BitAnd(a \div 2, b \div 2)

RECURSIVE BitOr(_, _)
BitOr(a, b) ==
    IF a = 0 THEN b
    ELSE IF b = 0 THEN a
    ELSE (IF a % 2 = 1 \/ b % 2 = 1 THEN 1 ELSE 0)
         + 2 * BitOr(a \div 2, b \div 2)

RECURSIVE Pow2(_)
Pow2(n) == IF n = 0 THEN 1 ELSE 2 * Pow2(n - 1)

ShiftRight(a, n) == a \div Pow2(n)

RECURSIVE BitLen(_)
BitLen(n) == IF n = 0 THEN 0 ELSE 1 + BitLen(n \div 2)

----------------------------------------------------------------------------
(* Instructions.  A function body is the sequence of instructions it       *)
(* executes; `?` after a call is the rule that a failed instruction ends   *)
(* the whole sequence (see map_err and the actions).                       *)

\* self.i2c.write(DRV2605L_ADDR, &[reg, value])
WriteIns(reg, value) == [k |-> "write", reg |-> reg, val |-> value]
\* self.i2c.write_read(DRV2605L_ADDR, &[reg], &mut buf)
ReadIns(reg) == [k |-> "read", reg |-> reg, val |-> 0]
\* a write of new_value, computed from the byte read just before
WriteNewIns(reg, mode) == [k |-> "write_new", reg |-> reg, val |-> mode]
\* Timer::after(Duration::from_millis(ms)).await
WaitIns(ms) == [k |-> "wait", reg |-> 0, val |-> ms]
\* return Err(Error::InvalidParameter)
InvalidParameterIns == [k |-> "invalid", reg |-> 0, val |-> 0]

\* map_err(Error::I2c): the outcome of a transaction that the transport
\* reported as ok or failed
\* (variant: the transport error is swallowed)
map_err_swallowed(ok) == IF ok THEN "Ok" ELSE "Ok"
map_err(ok) == IF ok THEN "Ok" ELSE "I2c"

\* set_mode: (current & 0xF8) | (mode as u8)
\* (variant: mask 0xF0, which also clears bit 3)
new_value_mask_f0(cur, mode) == BitOr(BitAnd(cur, 240), mode)
new_value(cur, mode) == BitOr(BitAnd(cur, 248), mode)

\* set_rated_voltage / set_overdrive_voltage: ((mv as u32 * 255) / 5600) as u8
voltage_value(mv) == ((mv * 255) \div 5600) % 256

\* is_playing: go_reg & 0x01 != 0
playing(go_reg) == BitAnd(go_reg, 1) # 0

\* (variant: the low three bits are taken)
device_id_low_bits(status) == BitAnd(status, 7)
\* get_device_id: (status >> 5) & 0x07
device_id(status) == BitAnd(ShiftRight(status, 5), 7)

\* auto_calibrate: status & 0x08 != 0
diag_failed(status) == BitAnd(status, 8) # 0

----------------------------------------------------------------------------
(* The async driver, async_i2c.rs. *)

async_write_register(reg, value) == <<WriteIns(reg, value)>>
async_read_register(reg) == <<ReadIns(reg)>>

async_reset == async_write_register(MODE, 128)
async_exit_standby == async_write_register(MODE, 0)
\* (variant: the register is read first, as set_mode does)
async_enter_standby_after_read ==
    async_read_register(MODE) \o async_write_register(MODE, 64)
async_enter_standby == async_write_register(MODE, 64)

async_set_mode(mode) == async_read_register(MODE) \o <<WriteNewIns(MODE, mode)>>

async_set_library(library) == async_write_register(LIBRARY_SELECTION, library)

\* (variant: the settle delay is taken before the reset is written)
async_init_wait_first(mt) ==
    <<WaitIns(ResetSettleMs)>> \o async_reset \o async_exit_standby
    \o (IF mt = "LRA"
        THEN async_write_register(FEEDBACK_CONTROL, 128)
             \o async_set_library(LibraryLRA)
        ELSE async_write_register(FEEDBACK_CONTROL, 0)
             \o async_set_library(LibraryB))
async_init(mt) ==
    async_reset \o <<WaitIns(ResetSettleMs)>> \o async_exit_standby
    \o (IF mt = "LRA"
        THEN async_write_register(FEEDBACK_CONTROL, 128)
             \o async_set_library(LibraryLRA)
        ELSE async_write_register(FEEDBACK_CONTROL, 0)
             \o async_set_library(LibraryB))

\* (variant: the LRA arm selects the ERM library)
async_set_motor_type_library_b(mt) ==
    IF mt = "LRA"
    THEN async_write_register(FEEDBACK_CONTROL, 128) \o async_set_library(LibraryB)
    ELSE async_write_register(FEEDBACK_CONTROL, 0) \o async_set_library(LibraryB)
async_set_motor_type(mt) ==
    IF mt = "LRA"
    THEN async_write_register(FEEDBACK_CONTROL, 128) \o async_set_library(LibraryLRA)
    ELSE async_write_register(FEEDBACK_CONTROL, 0) \o async_set_library(LibraryB)

async_go == async_write_register(GO, 1)
async_stop == async_write_register(GO, 0)
async_is_playing == async_read_register(GO)

\* (variant: bound check off by one)
async_set_waveform_slot_8(slot, effect) ==
    IF slot > 8 THEN <<InvalidParameterIns>>
    ELSE async_write_register(WAVEFORM_SEQUENCER_1 + slot, effect)
async_set_waveform(slot, effect) ==
    IF slot > 7 THEN <<InvalidParameterIns>>
    ELSE async_write_register(WAVEFORM_SEQUENCER_1 + slot, effect)

RECURSIVE async_clear_from(_)
async_clear_from(i) ==
    IF i >= 8 THEN <<>> ELSE async_set_waveform(i, 0) \o async_clear_from(i + 1)
\* (variant: the loop starts at slot 1)
async_clear_waveform_sequence_from_1 == async_clear_from(1)
async_clear_waveform_sequence == async_clear_from(0)

\* (variant: GO asserted before the terminator is written)
async_play_waveform_go_early(effect) ==
    async_set_mode(InternalTrigger) \o async_clear_waveform_sequence
    \o async_set_waveform(0, effect) \o async_go \o async_set_waveform(1, 0)
async_play_waveform(effect) ==
    async_set_mode(InternalTrigger) \o async_clear_waveform_sequence
    \o async_set_waveform(0, effect) \o async_set_waveform(1, 0) \o async_go

async_set_rtp_input(value) == async_write_register(RTP_INPUT, value)
async_play_rtp(value) == async_set_mode(RealTimePlayback) \o async_set_rtp_input(value)

async_set_rated_voltage(mv) == async_write_register(RATED_VOLTAGE, voltage_value(mv))
async_set_overdrive_voltage(mv) ==
    async_write_register(OVERDRIVE_CLAMP_VOLTAGE, voltage_value(mv))

async_get_device_id == async_read_register(STATUS)

\* (variant: GO is asserted before the mode is switched)
async_auto_calibrate_go_first == async_go \o async_set_mode(AutoCalibration)
\* auto_calibrate up to its loop: set_mode(AutoCalibration)?; go()?;
async_auto_calibrate == async_set_mode(AutoCalibration) \o async_go

\* while self.is_playing().await? && timeout > 0
calibration_loop(is_playing, t) == is_playing /\ t > 0

\* if timeout == 0 { return Err(Error::CalibrationFailed); }
calibration_timed_out(t) == t = 0

----------------------------------------------------------------------------
(* The async heartbeat extension, heartbeat.rs, mod async_i2c. *)

\* (variant: the sequence is written without clearing the slots first)
async_play_heartbeat_builtin_no_clear ==
    async_set_mode(InternalTrigger)
    \o async_set_waveform(0, StrongClick100)
    \o async_set_waveform(1, 129)
    \o async_set_waveform(2, StrongClick60)
    \o async_set_waveform(3, 180)
    \o async_set_waveform(4, 0)
    \o async_go
async_play_heartbeat_builtin ==
    async_set_mode(InternalTrigger) \o async_clear_waveform_sequence
    \o async_set_waveform(0, StrongClick100)
    \o async_set_waveform(1, 129)
    \o async_set_waveform(2, StrongClick60)
    \o async_set_waveform(3, 180)
    \o async_set_waveform(4, 0)
    \o async_go

async_play_double_click_heartbeat == async_play_waveform(DoubleClick100)

\* play_custom_heartbeat up to its timing computation
async_play_custom_heartbeat == async_set_mode(RealTimePlayback)

\* 0.4f32 is 13421773 / 2^25 (bits 0x3ECCCCCD); the mantissa is split as
\* F32Hi * 2^12 + F32Lo so that products stay below 2^31
F32Hi == 3276
F32Lo == 3277

\* (c as f32 * 0.4) as u64: the exact product c * 13421773 / 2^25, rounded to
\* a 24-bit significand (nearest, ties to even), truncated toward zero.
\* c as f32 is exact for c < 2^24.
f32_mul_04_as_u64(c) ==
    IF c = 0 THEN 0
    ELSE
    LET lo == (c * F32Lo) % 4096
        hi == c * F32Hi + (c * F32Lo) \div 4096
        \* the product is hi * 2^12 + lo; s is the number of bits dropped
        s == BitLen(hi) + 12 - 24
        q == IF s <= 12 THEN hi * Pow2(12 - s) + lo \div Pow2(s)
             ELSE hi \div Pow2(s - 12)
        r == IF s <= 12 THEN lo % Pow2(s)
             ELSE (hi % Pow2(s - 12)) * 4096 + lo
        half == IF s = 0 THEN 1 ELSE Pow2(s - 1)
        up == s > 0 /\ (r > half \/ (r = half /\ q % 2 = 1))
        sig == IF up THEN q + 1 ELSE q
    IN  sig \div Pow2(25 - s)

\* (variant: one zero of the minute's 60000 ms is dropped)
cycle_of_short(bpm) == 6000 \div bpm
\* let cycle_ms = 60000 / pattern.bpm as u64;   (bpm # 0)
cycle_of(bpm) == 60000 \div bpm
\* (variant: rounds to the nearest integer instead of truncating)
systole_of_rounded(c) == (4 * c + 5) \div 10
\* let systole_ms = (cycle_ms as f32 * 0.4) as u64;
systole_of(c) == f32_mul_04_as_u64(c)
\* (variant: the systole is not subtracted)
diastole_of_whole(c, s) == c
\* let diastole_ms = cycle_ms - systole_ms;
diastole_of(c, s) == c - s

\* (variant: the half-amplitude step of the first sound is left out)
heartbeat_cycle_no_half(pattern, sys, dia) ==
    async_set_rtp_input(pattern.s1_amplitude)
    \o <<WaitIns(50)>>
    \o async_set_rtp_input(pattern.s1_amplitude)
    \o <<WaitIns(30)>>
    \o async_set_rtp_input(0)
    \o <<WaitIns(sys - 80)>>
    \o async_set_rtp_input(pattern.s2_amplitude)
    \o <<WaitIns(40)>>
    \o async_set_rtp_input(0)
    \o <<WaitIns(dia - 40)>>
\* (variant: the rests do not deduct the time the pulses took)
heartbeat_cycle_full_rests(pattern, sys, dia) ==
    async_set_rtp_input(pattern.s1_amplitude)
    \o <<WaitIns(50)>>
    \o async_set_rtp_input(pattern.s1_amplitude \div 2)
    \o <<WaitIns(30)>>
    \o async_set_rtp_input(0)
    \o <<WaitIns(sys)>>
    \o async_set_rtp_input(pattern.s2_amplitude)
    \o <<WaitIns(40)>>
    \o async_set_rtp_input(0)
    \o <<WaitIns(dia)>>
\* the body of `loop { ... }`; a negative wait stands for a u64 subtraction
\* that went below zero
heartbeat_cycle(pattern, sys, dia) ==
    async_set_rtp_input(pattern.s1_amplitude)
    \o <<WaitIns(50)>>
    \o async_set_rtp_input(pattern.s1_amplitude \div 2)
    \o <<WaitIns(30)>>
    \o async_set_rtp_input(0)
    \o <<WaitIns(sys - 80)>>
    \o async_set_rtp_input(pattern.s2_amplitude)
    \o <<WaitIns(40)>>
    \o async_set_rtp_input(0)
    \o <<WaitIns(dia - 40)>>

----------------------------------------------------------------------------
(* The blocking driver, blocking.rs. *)

blocking_write_register(reg, value) == <<WriteIns(reg, value)>>
blocking_read_register(reg) == <<ReadIns(reg)>>

blocking_reset == blocking_write_register(MODE, 128)
blocking_exit_standby == blocking_write_register(MODE, 0)
blocking_enter_standby == blocking_write_register(MODE, 64)

blocking_set_mode(mode) ==
    blocking_read_register(MODE) \o <<WriteNewIns(MODE, mode)>>

blocking_set_library(library) == blocking_write_register(LIBRARY_SELECTION, library)

blocking_init(mt) ==
    blocking_reset \o blocking_exit_standby
    \o (IF mt = "LRA"
        THEN blocking_write_register(FEEDBACK_CONTROL, 128)
             \o blocking_set_library(LibraryLRA)
        ELSE blocking_write_register(FEEDBACK_CONTROL, 0)
             \o blocking_set_library(LibraryB))

blocking_set_motor_type(mt) ==
    IF mt = "LRA"
    THEN blocking_write_register(FEEDBACK_CONTROL, 128)
         \o blocking_set_library(LibraryLRA)
    ELSE blocking_write_register(FEEDBACK_CONTROL, 0)
         \o blocking_set_library(LibraryB)

blocking_go == blocking_write_register(GO, 1)
blocking_stop == blocking_write_register(GO, 0)
blocking_is_playing == blocking_read_register(GO)

blocking_set_waveform(slot, effect) ==
    IF slot > 7 THEN <<InvalidParameterIns>>
    ELSE blocking_write_register(WAVEFORM_SEQUENCER_1 + slot, effect)

RECURSIVE blocking_clear_from(_)
blocking_clear_from(i) ==
    IF i >= 8 THEN <<>>
    ELSE blocking_set_waveform(i, 0) \o blocking_clear_from(i + 1)
blocking_clear_waveform_sequence == blocking_clear_from(0)

\* (variant: GO asserted before the terminator is written)
blocking_play_waveform_go_early(effect) ==
    blocking_set_mode(InternalTrigger) \o blocking_clear_waveform_sequence
    \o blocking_set_waveform(0, effect) \o blocking_go
    \o blocking_set_waveform(1, 0)
blocking_play_waveform(effect) ==
    blocking_set_mode(InternalTrigger) \o blocking_clear_waveform_sequence
    \o blocking_set_waveform(0, effect) \o blocking_set_waveform(1, 0)
    \o blocking_go

blocking_set_rtp_input(value) == blocking_write_register(RTP_INPUT, value)
blocking_play_rtp(value) ==
    blocking_set_mode(RealTimePlayback) \o blocking_set_rtp_input(value)

blocking_set_rated_voltage(mv) ==
    blocking_write_register(RATED_VOLTAGE, voltage_value(mv))
blocking_set_overdrive_voltage(mv) ==
    blocking_write_register(OVERDRIVE_CLAMP_VOLTAGE, voltage_value(mv))

blocking_get_device_id == blocking_read_register(STATUS)

(* The blocking heartbeat extension, heartbeat.rs, mod blocking. *)

blocking_play_heartbeat_builtin ==
    blocking_set_mode(InternalTrigger) \o blocking_clear_waveform_sequence
    \o blocking_set_waveform(0, StrongClick100)
    \o blocking_set_waveform(1, 129)
    \o blocking_set_waveform(2, StrongClick60)
    \o blocking_set_waveform(3, 180)
    \o blocking_set_waveform(4, 0)
    \o blocking_go

blocking_play_double_click_heartbeat == blocking_play_waveform(DoubleClick100)

blocking_start_custom_heartbeat(pattern) ==
    blocking_set_mode(RealTimePlayback)
    \o blocking_set_rtp_input(pattern.s1_amplitude)

----------------------------------------------------------------------------
(* Operations and their arguments. *)

\* HeartbeatPattern::default()
DefaultPattern == [bpm |-> 70, s1_amplitude |-> 96, s2_amplitude |-> 56]

NoOp ==
    [name |-> "none", mode |-> 0, library |-> 0, motor_type |-> "LRA",
     slot |-> 0, effect |-> 0, value |-> 0, mv |-> 0,
     pattern |-> [bpm |-> 0, s1_amplitude |-> 0, s2_amplitude |-> 0]]

Op(name) == [NoOp EXCEPT !.name = name]

\* the public functions of impl Drv2605l in async_i2c.rs and heartbeat.rs
AsyncOps ==
    {"init", "reset", "exit_standby", "enter_standby", "set_mode",
     "set_library", "set_motor_type", "go", "stop", "is_playing",
     "set_waveform", "clear_waveform_sequence", "play_waveform",
     "set_rtp_input", "play_rtp", "set_rated_voltage",
     "set_overdrive_voltage", "get_device_id", "auto_calibrate",
     "play_heartbeat_builtin", "play_double_click_heartbeat",
     "play_custom_heartbeat"}

\* the public functions of impl Drv2605l in blocking.rs and heartbeat.rs
BlockingOps ==
    {"init", "reset", "exit_standby", "enter_standby", "set_mode",
     "set_library", "set_motor_type", "go", "stop", "is_playing",
     "set_waveform", "clear_waveform_sequence", "play_waveform",
     "set_rtp_input", "play_rtp", "set_rated_voltage",
     "set_overdrive_voltage", "get_device_id",
     "play_heartbeat_builtin", "play_double_click_heartbeat",
     "start_custom_heartbeat"}

PublicOps(s) == IF s = "async" THEN AsyncOps ELSE BlockingOps

\* the instructions operation o executes before any loop of its own
AsyncCode(o, mt) ==
    CASE o.name = "init" -> async_init(mt)
      [] o.name = "reset" -> async_reset
      [] o.name = "exit_standby" -> async_exit_standby
      [] o.name = "enter_standby" -> async_enter_standby
      [] o.name = "set_mode" -> async_set_mode(o.mode)
      [] o.name = "set_library" -> async_set_library(o.library)
      [] o.name = "set_motor_type" -> async_set_motor_type(o.motor_type)
      [] o.name = "go" -> async_go
      [] o.name = "stop" -> async_stop
      [] o.name = "is_playing" -> async_is_playing
      [] o.name = "set_waveform" -> async_set_waveform(o.slot, o.effect)
      [] o.name = "clear_waveform_sequence" -> async_clear_waveform_sequence
      [] o.name = "play_waveform" -> async_play_waveform(o.effect)
      [] o.name = "set_rtp_input" -> async_set_rtp_input(o.value)
      [] o.name = "play_rtp" -> async_play_rtp(o.value)
      [] o.name = "set_rated_voltage" -> async_set_rated_voltage(o.mv)
      [] o.name = "set_overdrive_voltage" -> async_set_overdrive_voltage(o.mv)
      [] o.name = "get_device_id" -> async_get_device_id
      [] o.name = "auto_calibrate" -> async_auto_calibrate
      [] o.name = "play_heartbeat_builtin" -> async_play_heartbeat_builtin
      [] o.name = "play_double_click_heartbeat" ->
            async_play_double_click_heartbeat
      [] o.name = "play_custom_heartbeat" -> async_play_custom_heartbeat
      [] OTHER -> <<>>

BlockingCode(o, mt) ==
    CASE o.name = "init" -> blocking_init(mt)
      [] o.name = "reset" -> blocking_reset
      [] o.name = "exit_standby" -> blocking_exit_standby
      [] o.name = "enter_standby" -> blocking_enter_standby
      [] o.name = "set_mode" -> blocking_set_mode(o.mode)
      [] o.name = "set_library" -> blocking_set_library(o.library)
      [] o.name = "set_motor_type" -> blocking_set_motor_type(o.motor_type)
      [] o.name = "go" -> blocking_go
      [] o.name = "stop" -> blocking_stop
      [] o.name = "is_playing" -> blocking_is_playing
      [] o.name = "set_waveform" -> blocking_set_waveform(o.slot, o.effect)
      [] o.name = "clear_waveform_sequence" -> blocking_clear_waveform_sequence
      [] o.name = "play_waveform" -> blocking_play_waveform(o.effect)
      [] o.name = "set_rtp_input" -> blocking_set_rtp_input(o.value)
      [] o.name = "play_rtp" -> blocking_play_rtp(o.value)
      [] o.name = "set_rated_voltage" -> blocking_set_rated_voltage(o.mv)
      [] o.name = "set_overdrive_voltage" ->
            blocking_set_overdrive_voltage(o.mv)
      [] o.name = "get_device_id" -> blocking_get_device_id
      [] o.name = "play_heartbeat_builtin" -> blocking_play_heartbeat_builtin
      [] o.name = "play_double_click_heartbeat" ->
            blocking_play_double_click_heartbeat
      [] o.name = "start_custom_heartbeat" ->
            blocking_start_custom_heartbeat(o.pattern)
      [] OTHER -> <<>>

Code(s, o, mt) == IF s = "async" THEN AsyncCode(o, mt) ELSE BlockingCode(o, mt)

\* Ok(go_reg & 0x01 != 0), Ok((status >> 5) & 0x07), Ok(())
ReturnValue(o, cur) ==
    CASE o.name = "is_playing" -> IF playing(cur) THEN 1 ELSE 0
      [] o.name = "get_device_id" -> device_id(cur)
      [] OTHER -> 0

\* (variant: the motor type is not recorded when the call begins)
motor_type_not_recorded(o, mt) == mt
\* self.motor_type = motor_type; the first statement of set_motor_type
motor_type_on_call(o, mt) ==
    IF o.name = "set_motor_type" THEN o.motor_type ELSE mt

----------------------------------------------------------------------------
(* The state machine. *)

Idle == at \in {"idle", "done"}

\* the block of instructions being executed and the instruction reached
Block ==
    IF at = "beat" THEN heartbeat_cycle(op.pattern, systole_ms, diastole_ms)
    ELSE Code(strategy, op, motor_type)

Ins == Block[pc]

Stepping ==
    /\ at \in {"run", "beat"}
    /\ pc \in 1..Len(Block)
    /\ at = "beat" => cycles < MaxCycles

Ctl(a, p, t, c, r, v) ==
    [at |-> a, pc |-> p, timeout |-> t, cycles |-> c, result |-> r, retval |-> v]

\* control after the instruction at pc completed: the next instruction, the
\* loop the operation enters after its straight-line part, the next cycle of
\* `loop`, or the return of Ok
Continue(cur) ==
    IF pc < Len(Block) THEN Ctl(at, pc + 1, timeout, cycles, result, retval)
    ELSE IF at = "beat" THEN Ctl("beat", 1, timeout, cycles + 1, result, retval)
    ELSE IF op.name = "auto_calibrate"
         THEN Ctl("poll", 0, CalibrationTimeout, cycles, result, retval)
    ELSE IF op.name = "play_custom_heartbeat"
         THEN Ctl("timing", 0, timeout, cycles, result, retval)
    ELSE Ctl("done", pc, timeout, cycles, "Ok", ReturnValue(op, cur))

\* return Err(e)
Return(e) == Ctl("done", pc, timeout, cycles, e, 0)

\* `?`: an Err ends the operation with that error, an Ok goes on
Try(r, cur) == IF r = "Ok" THEN Continue(cur) ELSE Return(r)

SetCtl(c) ==
    /\ at' = c.at
    /\ pc' = c.pc
    /\ timeout' = c.timeout
    /\ cycles' = c.cycles
    /\ result' = c.result
    /\ retval' = c.retval

Entry(kind, reg, val, ok) == [k |-> kind, reg |-> reg, val |-> val, ok |-> ok]

\* (variant: a call is accepted while another operation is in progress)
Call_while_busy(o) ==
    /\ at # "panicked"
    /\ nops < MaxOps
    /\ o.name \in PublicOps(strategy)
    /\ op' = o
    /\ motor_type' = motor_type_on_call(o, motor_type)
    /\ at' = "run"
    /\ pc' = 1
    /\ trace' = <<>>
    /\ result' = "none"
    /\ retval' = 0
    /\ nops' = nops + 1
    /\ current' = 0
    /\ timeout' = 0
    /\ cycles' = 0
    /\ cycle_ms' = 0
    /\ systole_ms' = 0
    /\ diastole_ms' = 0
    /\ UNCHANGED <<strategy, regs>>
\* a public function is called on the driver; every one of them takes
\* `&mut self`, so none is called while another one's borrow is alive
Call(o) ==
    /\ Idle
    /\ nops < MaxOps
    /\ o.name \in PublicOps(strategy)
    /\ op' = o
    /\ motor_type' = motor_type_on_call(o, motor_type)
    /\ at' = "run"
    /\ pc' = 1
    /\ trace' = <<>>
    /\ result' = "none"
    /\ retval' = 0
    /\ nops' = nops + 1
    /\ current' = 0
    /\ timeout' = 0
    /\ cycles' = 0
    /\ cycle_ms' = 0
    /\ systole_ms' = 0
    /\ diastole_ms' = 0
    /\ UNCHANGED <<strategy, regs>>

\* write_register: one I2C write, which the transport completes or fails
I2cWrite ==
    /\ Stepping
    /\ Ins.k \in {"write", "write_new"}
    /\ \E ok \in BOOLEAN :
         LET v == IF Ins.k = "write" THEN Ins.val ELSE new_value(current, Ins.val)
         IN  /\ trace' = Append(trace, Entry("write", Ins.reg, v, ok))
             /\ regs' = IF ok THEN [regs EXCEPT ![Ins.reg] = v] ELSE regs
             /\ SetCtl(Try(map_err(ok), current))
    /\ UNCHANGED <<strategy, motor_type, op, current, cycle_ms, systole_ms,
                   diastole_ms, nops>>

\* read_register: one I2C write_read
I2cRead ==
    /\ Stepping
    /\ Ins.k = "read"
    /\ \E ok \in BOOLEAN :
         LET b == IF ok THEN regs[Ins.reg] ELSE 0
         IN  /\ trace' = Append(trace, Entry("read", Ins.reg, b, ok))
             /\ current' = IF ok THEN b ELSE current
             /\ SetCtl(Try(map_err(ok), b))
    /\ UNCHANGED <<strategy, motor_type, regs, op, cycle_ms, systole_ms,
                   diastole_ms, nops>>

\* Timer::after(Duration::from_millis(ms)).await; a u64 subtraction below
\* zero panics in a build with overflow checks and wraps in one without
\* (the wrapped duration 2^64 + ms is recorded as the negative ms)
TimerWait ==
    /\ Stepping
    /\ Ins.k = "wait"
    /\ \E overflow_checks \in BOOLEAN :
         IF Ins.val < 0 /\ overflow_checks
         THEN /\ SetCtl(Ctl("panicked", pc, timeout, cycles, "panic", 0))
              /\ trace' = trace
         ELSE /\ SetCtl(Continue(current))
              /\ trace' = Append(trace, Entry("wait", 0, Ins.val, TRUE))
    /\ UNCHANGED <<strategy, motor_type, regs, op, current, cycle_ms,
                   systole_ms, diastole_ms, nops>>

\* set_waveform: return Err(Error::InvalidParameter) before any transaction
EarlyReturn ==
    /\ Stepping
    /\ Ins.k = "invalid"
    /\ SetCtl(Return("InvalidParameter"))
    /\ UNCHANGED <<strategy, motor_type, regs, op, current, cycle_ms,
                   systole_ms, diastole_ms, trace, nops>>

\* play_custom_heartbeat: the three `let`s before `loop`; the division
\* panics when bpm is 0
HeartbeatTiming ==
    /\ at = "timing"
    /\ IF op.pattern.bpm = 0
       THEN /\ SetCtl(Ctl("panicked", pc, timeout, cycles, "panic", 0))
            /\ UNCHANGED <<cycle_ms, systole_ms, diastole_ms>>
       ELSE LET c == cycle_of(op.pattern.bpm)
                sy == systole_of(c)
            IN  /\ cycle_ms' = c
                /\ systole_ms' = sy
                /\ diastole_ms' = diastole_of(c, sy)
                /\ SetCtl(Ctl("beat", 1, timeout, cycles, result, retval))
    /\ UNCHANGED <<strategy, motor_type, regs, op, current, trace, nops>>

\* auto_calibrate: the loop condition, which polls is_playing first, and
\* what follows the loop's exit
CalibrationPoll ==
    /\ at = "poll"
    /\ \E ok \in BOOLEAN :
         LET go_reg == IF ok THEN regs[GO] ELSE 0
         IN  /\ trace' = Append(trace, Entry("read", GO, go_reg, ok))
             /\ current' = IF ok THEN go_reg ELSE current
             /\ SetCtl(IF map_err(ok) # "Ok" THEN Return(map_err(ok))
                       ELSE IF calibration_loop(playing(go_reg), timeout)
                            THEN Ctl("sleep", pc, timeout, cycles, result, retval)
                       ELSE IF calibration_timed_out(timeout)
                            THEN Return("CalibrationFailed")
                       ELSE Ctl("status", pc, timeout, cycles, result, retval))
    /\ UNCHANGED <<strategy, motor_type, regs, op, cycle_ms, systole_ms,
                   diastole_ms, nops>>

\* auto_calibrate: the loop body
CalibrationSleep ==
    /\ at = "sleep"
    /\ trace' = Append(trace, Entry("wait", 0, CalibrationPollMs, TRUE))
    /\ SetCtl(Ctl("poll", pc, timeout - 1, cycles, result, retval))
    /\ UNCHANGED <<strategy, motor_type, regs, op, current, cycle_ms,
                   systole_ms, diastole_ms, nops>>

\* auto_calibrate: the status check after the loop
CalibrationStatus ==
    /\ at = "status"
    /\ \E ok \in BOOLEAN :
         LET status == IF ok THEN regs[STATUS] ELSE 0
         IN  /\ trace' = Append(trace, Entry("read", STATUS, status, ok))
             /\ current' = IF ok THEN status ELSE current
             /\ SetCtl(IF map_err(ok) # "Ok" THEN Return(map_err(ok))
                       ELSE IF diag_failed(status)
                            THEN Return("CalibrationFailed")
                       ELSE Ctl("done", pc, timeout, cycles, "Ok", 0))
    /\ UNCHANGED <<strategy, motor_type, regs, op, cycle_ms, systole_ms,
                   diastole_ms, nops>>

\* the chip ends a playback or a calibration: it clears the GO bit and,
\* after a calibration, reports the outcome in the diagnostic bit of STATUS
DeviceGoClear ==
    /\ playing(regs[GO])
    /\ \E diag \in BOOLEAN :
         LET st == regs[STATUS]
             cleared == st - BitAnd(st, 8)
         IN  regs' = [regs EXCEPT
                        ![GO] = regs[GO] - 1,
                        ![STATUS] = IF regs[MODE] % 8 = AutoCalibration
                                    THEN cleared + (IF diag THEN 8 ELSE 0)
                                    ELSE st]
    /\ UNCHANGED <<strategy, motor_type, op, at, pc, current, timeout, cycle_ms,
                   systole_ms, diastole_ms, cycles, trace, result, retval, nops>>

----------------------------------------------------------------------------
(* The calls, by the sets their arguments are drawn from. *)

Call_init == Call(Op("init"))
Call_reset == Call(Op("reset"))
Call_exit_standby == Call(Op("exit_standby"))
Call_enter_standby == Call(Op("enter_standby"))
Call_set_mode(modes) ==
    \E m \in modes : Call([Op("set_mode") EXCEPT !.mode = m])
Call_set_library(libraries) ==
    \E l \in libraries : Call([Op("set_library") EXCEPT !.library = l])
Call_set_motor_type ==
    \E mt \in MotorTypes : Call([Op("set_motor_type") EXCEPT !.motor_type = mt])
Call_go == Call(Op("go"))
Call_stop == Call(Op("stop"))
Call_is_playing == Call(Op("is_playing"))
Call_set_waveform(slots, effects) ==
    \E sl \in slots, e \in effects :
        Call([Op("set_waveform") EXCEPT !.slot = sl, !.effect = e])
Call_clear_waveform_sequence == Call(Op("clear_waveform_sequence"))
Call_play_waveform(effects) ==
    \E e \in effects : Call([Op("play_waveform") EXCEPT !.effect = e])
Call_set_rtp_input(values) ==
    \E v \in values : Call([Op("set_rtp_input") EXCEPT !.value = v])
Call_play_rtp(values) ==
    \E v \in values : Call([Op("play_rtp") EXCEPT !.value = v])
Call_set_rated_voltage(mvs) ==
    \E mv \in mvs : Call([Op("set_rated_voltage") EXCEPT !.mv = mv])
Call_set_overdrive_voltage(mvs) ==
    \E mv \in mvs : Call([Op("set_overdrive_voltage") EXCEPT !.mv = mv])
Call_get_device_id == Call(Op("get_device_id"))
Call_auto_calibrate == Call(Op("auto_calibrate"))
Call_play_heartbeat_builtin == Call(Op("play_heartbeat_builtin"))
Call_play_double_click_heartbeat == Call(Op("play_double_click_heartbeat"))
Call_play_custom_heartbeat(patterns) ==
    \E p \in patterns : Call([Op("play_custom_heartbeat") EXCEPT !.pattern = p])
Call_start_custom_heartbeat(patterns) ==
    \E p \in patterns : Call([Op("start_custom_heartbeat") EXCEPT !.pattern = p])

\* a driver just constructed (new: motor_type LRA) in front of a chip whose
\* MODE and STATUS registers hold one of the given bytes
InitWith(modes, statuses) ==
    /\ strategy \in Strategies
    /\ motor_type = "LRA"
    /\ \E m \in modes, st \in statuses :
         regs = [r \in Registers |->
                   IF r = MODE THEN m ELSE IF r = STATUS THEN st ELSE 0]
    /\ op = NoOp
    /\ at = "idle"
    /\ pc = 0
    /\ current = 0
    /\ timeout = 0
    /\ cycle_ms = 0
    /\ systole_ms = 0
    /\ diastole_ms = 0
    /\ cycles = 0
    /\ trace = <<>>
    /\ result = "none"
    /\ retval = 0
    /\ nops = 0

----------------------------------------------------------------------------
(* Spec: every operation of the driver, called one after the other.        *)

ModeInit == {253}
StatusInit == {224}
ModeArgs == {RealTimePlayback}
LibraryArgs == {1}
SlotArgs == {7, 8}
EffectArgs == {47}
ValueArgs == {255}
MvArgs == {2800}
PatternArgs ==
    {DefaultPattern, [bpm |-> 0, s1_amplitude |-> 255, s2_amplitude |-> 1]}

Init == InitWith(ModeInit, StatusInit)

Next ==
    \/ Call_init
    \/ Call_reset
    \/ Call_exit_standby
    \/ Call_enter_standby
    \/ Call_set_mode(ModeArgs)
    \/ Call_set_library(LibraryArgs)
    \/ Call_set_motor_type
    \/ Call_go
    \/ Call_stop
    \/ Call_is_playing
    \/ Call_set_waveform(SlotArgs, EffectArgs)
    \/ Call_clear_waveform_sequence
    \/ Call_play_waveform(EffectArgs)
    \/ Call_set_rtp_input(ValueArgs)
    \/ Call_play_rtp(ValueArgs)
    \/ Call_set_rated_voltage(MvArgs)
    \/ Call_set_overdrive_voltage(MvArgs)
    \/ Call_get_device_id
    \/ Call_auto_calibrate
    \/ Call_play_heartbeat_builtin
    \/ Call_play_double_click_heartbeat
    \/ Call_play_custom_heartbeat(PatternArgs)
    \/ Call_start_custom_heartbeat(PatternArgs)
    \/ I2cWrite
    \/ I2cRead
    \/ TimerWait
    \/ EarlyReturn
    \/ HeartbeatTiming
    \/ CalibrationPoll
    \/ CalibrationSleep
    \/ CalibrationStatus
    \/ DeviceGoClear

Spec == Init /\ [][Next]_vars

----------------------------------------------------------------------------
(* SpecMode: set_mode from every byte the MODE register can hold.          *)

InitMode == InitWith(Byte, StatusInit)

NextMode ==
    \/ Call_set_mode(Modes)
    \/ I2cRead
    \/ I2cWrite

SpecMode == InitMode /\ [][NextMode]_vars

----------------------------------------------------------------------------
(* SpecWave: the waveform sequencer's operations, one call on a new driver *)

WaveSlots == (0..MaxSlot) \cup {255}
WaveEffects == {0, 1, 47, 129, 255}
WaveModeInit == {0, 64, 253}

InitWave == InitWith(WaveModeInit, StatusInit)

NextWave ==
    \/ nops = 0 /\ Call_set_waveform(WaveSlots, WaveEffects)
    \/ nops = 0 /\ Call_clear_waveform_sequence
    \/ nops = 0 /\ Call_play_waveform(WaveEffects)
    \/ nops = 0 /\ Call_play_heartbeat_builtin
    \/ nops = 0 /\ Call_play_double_click_heartbeat
    \/ I2cWrite
    \/ I2cRead
    \/ EarlyReturn
    \/ DeviceGoClear

SpecWave == InitWave /\ [][NextWave]_vars

----------------------------------------------------------------------------
(* SpecCal: auto_calibrate, one call on a new driver                       *)

CalModeInit == {0, 64, 253}
CalStatusInit == {0, 8, 224, 232}

InitCal == InitWith(CalModeInit, CalStatusInit)

NextCal ==
    \/ nops = 0 /\ Call_auto_calibrate
    \/ I2cWrite
    \/ I2cRead
    \/ CalibrationPoll
    \/ CalibrationSleep
    \/ CalibrationStatus
    \/ DeviceGoClear

SpecCal == InitCal /\ [][NextCal]_vars

----------------------------------------------------------------------------
(* SpecHeart: play_custom_heartbeat with every bpm a u8 holds              *)

HeartPatterns ==
    {[bpm |-> b, s1_amplitude |-> a[1], s2_amplitude |-> a[2]] :
        b \in Byte, a \in {<<96, 56>>, <<255, 1>>}}

InitHeart == InitWith(ModeInit, StatusInit)

NextHeart ==
    \/ nops = 0 /\ Call_play_custom_heartbeat(HeartPatterns)
    \/ I2cWrite
    \/ I2cRead
    \/ TimerWait
    \/ HeartbeatTiming

SpecHeart == InitHeart /\ [][NextHeart]_vars

----------------------------------------------------------------------------
(* SpecVolt: the voltage settings, one call on a new driver                *)

VoltArgs == (0..MaxMv) \cup {11200, 11222, 65535}

InitVolt == InitWith(ModeInit, StatusInit)

NextVolt ==
    \/ nops = 0 /\ Call_set_rated_voltage(VoltArgs)
    \/ nops = 0 /\ Call_set_overdrive_voltage(VoltArgs)
    \/ I2cWrite

SpecVolt == InitVolt /\ [][NextVolt]_vars

----------------------------------------------------------------------------
(* SpecSlots: the sequencer operations that clear all slots, one call on a *)
(* new driver whose chip holds an earlier sequence in all 8 slots          *)

\* the effect an earlier sequence left in a slot register: 16..23
SlotFill(reg) == reg + 12

InitSlots ==
    /\ strategy \in Strategies
    /\ motor_type = "LRA"
    /\ \E m \in WaveModeInit, st \in StatusInit :
         regs = [r \in Registers |->
                   IF r = MODE THEN m
                   ELSE IF r = STATUS THEN st
                   ELSE IF r \in WAVEFORM_SEQUENCER_1..WAVEFORM_SEQUENCER_8
                        THEN SlotFill(r)
                   ELSE 0]
    /\ op = NoOp
    /\ at = "idle"
    /\ pc = 0
    /\ current = 0
    /\ timeout = 0
    /\ cycle_ms = 0
    /\ systole_ms = 0
    /\ diastole_ms = 0
    /\ cycles = 0
    /\ trace = <<>>
    /\ result = "none"
    /\ retval = 0
    /\ nops = 0

NextSlots ==
    \/ nops = 0 /\ Call_clear_waveform_sequence
    \/ nops = 0 /\ Call_play_heartbeat_builtin
    \/ I2cWrite
    \/ I2cRead
    \/ DeviceGoClear

SpecSlots == InitSlots /\ [][NextSlots]_vars

----------------------------------------------------------------------------
(* SpecQuery: the queries and set_motor_type called any number of times,   *)
(* every other operation as the first call or right after the first        *)
(* set_motor_type, on a chip with various STATUS and GO contents           *)

StatusBytes == {0, 31, 168, 224}
GoBytes == {0, 1, 254}

InitQuery ==
    /\ strategy \in Strategies
    /\ motor_type = "LRA"
    /\ \E m \in ModeInit, st \in StatusBytes, g \in GoBytes :
         regs = [r \in Registers |->
                   IF r = MODE THEN m
                   ELSE IF r = STATUS THEN st
                   ELSE IF r = GO THEN g
                   ELSE 0]
    /\ op = NoOp
    /\ at = "idle"
    /\ pc = 0
    /\ current = 0
    /\ timeout = 0
    /\ cycle_ms = 0
    /\ systole_ms = 0
    /\ diastole_ms = 0
    /\ cycles = 0
    /\ trace = <<>>
    /\ result = "none"
    /\ retval = 0
    /\ nops = 0

\* the position of a call that is not a query
FirstOrAfterMotorType == nops = 0 \/ (nops = 1 /\ op.name = "set_motor_type")

NextQuery ==
    \/ Call_set_motor_type
    \/ Call_set_mode(ModeArgs)
    \/ Call_is_playing
    \/ Call_get_device_id
    \/ FirstOrAfterMotorType /\ Call_init
    \/ FirstOrAfterMotorType /\ Call_reset
    \/ FirstOrAfterMotorType /\ Call_exit_standby
    \/ FirstOrAfterMotorType /\ Call_enter_standby
    \/ FirstOrAfterMotorType /\ Call_set_library(LibraryArgs)
    \/ FirstOrAfterMotorType /\ Call_go
    \/ FirstOrAfterMotorType /\ Call_stop
    \/ FirstOrAfterMotorType /\ Call_set_waveform(SlotArgs, EffectArgs)
    \/ FirstOrAfterMotorType /\ Call_clear_waveform_sequence
    \/ FirstOrAfterMotorType /\ Call_play_waveform(EffectArgs)
    \/ FirstOrAfterMotorType /\ Call_set_rtp_input(ValueArgs)
    \/ FirstOrAfterMotorType /\ Call_play_rtp(ValueArgs)
    \/ FirstOrAfterMotorType /\ Call_set_rated_voltage(MvArgs)
    \/ FirstOrAfterMotorType /\ Call_set_overdrive_voltage(MvArgs)
    \/ FirstOrAfterMotorType /\ Call_auto_calibrate
    \/ FirstOrAfterMotorType /\ Call_play_heartbeat_builtin
    \/ FirstOrAfterMotorType /\ Call_play_double_click_heartbeat
    \/ FirstOrAfterMotorType /\ Call_play_custom_heartbeat(PatternArgs)
    \/ FirstOrAfterMotorType /\ Call_start_custom_heartbeat(PatternArgs)
    \/ I2cWrite
    \/ I2cRead
    \/ TimerWait
    \/ EarlyReturn
    \/ HeartbeatTiming
    \/ CalibrationPoll
    \/ CalibrationSleep
    \/ CalibrationStatus
    \/ DeviceGoClear

SpecQuery == InitQuery /\ [][NextQuery]_vars

----------------------------------------------------------------------------
(* SpecStandby: reset and the standby switches among mode changes          *)

StandbyModeInit == {5, 64, 69, 253}

InitStandby == InitWith(StandbyModeInit, StatusInit)

NextStandby ==
    \/ Call_set_mode(Modes)
    \/ Call_reset
    \/ Call_exit_standby
    \/ Call_enter_standby
    \/ I2cRead
    \/ I2cWrite

SpecStandby == InitStandby /\ [][NextStandby]_vars

----------------------------------------------------------------------------
(* Properties. *)

Sig(e) == <<e.k, e.reg, e.val>>
Done == at = "done"
Succeeded == at = "done" /\ result = "Ok"
AllOk == \A i \in 1..Len(trace) : trace[i].ok
NoWaits(t) == SelectSeq(t, LAMBDA e : e.k # "wait")
FirstByteRead == IF trace = <<>> THEN 0 ELSE trace[1].val

\* C1: a successful set_mode(M) issues exactly one read of register 0x01
\* followed by one write to 0x01; the byte written has the upper 5 bits of
\* the byte the register held and M's code in its low 3 bits.
C1_SetModeKeepsUpperBits ==
    (op.name = "set_mode" /\ Succeeded) =>
        /\ Len(trace) = 2
        /\ trace[1].k = "read" /\ trace[1].reg = 1 /\ trace[1].ok
        /\ trace[2].k = "write" /\ trace[2].reg = 1 /\ trace[2].ok
        /\ trace[2].val \div 8 = trace[1].val \div 8
        /\ trace[2].val % 8 = op.mode
        /\ regs[1] = trace[2].val

\* set_mode(ExternalTriggerLevel) on a register holding 0xFD left 0xFA
C1_Witness ==
    /\ op.name = "set_mode" /\ Succeeded
    /\ op.mode = 2
    /\ trace[1].val = 253
    /\ regs[1] = 250

PlayWaveformExpected(effect, cur) ==
    << <<"read", 1, cur>>, <<"write", 1, (cur \div 8) * 8>> >>
    \o [i \in 1..8 |-> <<"write", 3 + i, 0>>]
    \o << <<"write", 4, effect>>, <<"write", 5, 0>>, <<"write", 12, 1>> >>

\* C2: play_waveform(E) issues, in this order, the read and the write of the
\* mode register (mode InternalTrigger), eight writes of 0 to 0x04..0x0B,
\* E to 0x04, 0 to 0x05 and 1 to GO (0x0C); it issues nothing else, stops at
\* the first failure, and returns Ok exactly when all 13 transactions were
\* issued and none failed, so that the GO write is the last one and unique.
C2_PlayWaveformOrder ==
    op.name = "play_waveform" =>
        LET exp == PlayWaveformExpected(op.effect, FirstByteRead)
        IN  /\ Len(trace) <= 13
            /\ \A i \in 1..Len(trace) :
                 IF trace[i].ok THEN Sig(trace[i]) = exp[i]
                 ELSE trace[i].k = exp[i][1] /\ trace[i].reg = exp[i][2]
            /\ Succeeded <=> (Len(trace) = 13 /\ AllOk)
            /\ Cardinality({i \in 1..Len(trace) : trace[i].reg = 12}) <= 1

\* play_waveform(47) ran to its end: 13 transactions, the last is GO <- 1
C2_Witness ==
    /\ op.name = "play_waveform" /\ Succeeded
    /\ op.effect = 47
    /\ Len(trace) = 13
    /\ Sig(trace[13]) = <<"write", 12, 1>>
    /\ Sig(trace[11]) = <<"write", 4, 47>>

GoPolls == {i \in 1..Len(trace) : trace[i].k = "read" /\ trace[i].reg = 12}
StatusReads == {i \in 1..Len(trace) : trace[i].k = "read" /\ trace[i].reg = 0}
SawGoClear == \E i \in GoPolls : trace[i].ok /\ trace[i].val % 2 = 0

\* C3: auto_calibrate against a chip whose GO bit never clears and a
\* transport that never fails ends after exactly 100 polls of GO with
\* CalibrationFailed.
C3_HundredPolls ==
    (op.name = "auto_calibrate" /\ Done /\ AllOk /\ ~SawGoClear) =>
        /\ result = "CalibrationFailed"
        /\ Cardinality(GoPolls) = 100

\* C4: in auto_calibrate, when any poll saw GO clear the status register is
\* read and decides the outcome (Ok when bit 0x08 is clear, CalibrationFailed
\* when set); CalibrationFailed without a status read (the timeout) happens
\* only when no poll saw GO clear.
C4_GoClearLeadsToStatus ==
    (op.name = "auto_calibrate" /\ Done /\ AllOk) =>
        /\ SawGoClear =>
             /\ StatusReads = {Len(trace)}
             /\ result = IF (trace[Len(trace)].val \div 8) % 2 = 1
                         THEN "CalibrationFailed" ELSE "Ok"
        /\ (result = "CalibrationFailed" /\ StatusReads = {}) => ~SawGoClear

\* C5: set_waveform(slot, x) with slot >= 8 issues no transaction and returns
\* InvalidParameter; with slot in 0..7 it issues exactly one write, of x, to
\* register 0x04 + slot, and does not return InvalidParameter.
C5_SetWaveformBounds ==
    op.name = "set_waveform" =>
        IF op.slot >= 8
        THEN /\ trace = <<>>
             /\ result \in {"none", "InvalidParameter"}
             /\ Done => result = "InvalidParameter"
        ELSE /\ result # "InvalidParameter"
             /\ Len(trace) <= 1
             /\ Done => Len(trace) = 1
             /\ \A i \in 1..Len(trace) :
                  Sig(trace[i]) = <<"write", 4 + op.slot, op.effect>>

\* set_waveform(8, x) was rejected with no transaction issued
C5_Witness ==
    /\ op.name = "set_waveform" /\ Done
    /\ op.slot = 8
    /\ result = "InvalidParameter"
    /\ trace = <<>>

\* C6: in every operation a failed transaction is the last thing the
\* operation does: it is the last entry of the trace, the operation has
\* returned, and what it returned is the I2c error; and the I2c error is
\* returned for no other reason.
C6_FirstFailureEnds ==
    /\ \A i \in 1..Len(trace) :
         ~trace[i].ok => (i = Len(trace) /\ Done /\ result = "I2c")
    /\ result = "I2c" => (trace # <<>> /\ ~trace[Len(trace)].ok)

\* auto_calibrate ended with the I2c error at a failed poll inside its loop
C6_Witness ==
    /\ op.name = "auto_calibrate" /\ Done
    /\ result = "I2c"
    /\ Len(trace) > 5
    /\ ~trace[Len(trace)].ok

OtherStrategy == IF strategy = "async" THEN "blocking" ELSE "async"
SharedOps == AsyncOps \cap BlockingOps

\* the transactions program prog issues when its j-th transaction gets the
\* response resp[j] (failure or not, and the byte a read returns)
RECURSIVE Replay(_, _, _, _, _)
Replay(prog, i, resp, j, cur) ==
    IF i > Len(prog) THEN <<>>
    ELSE LET ins == prog[i]
         IN  IF ins.k = "wait" THEN Replay(prog, i + 1, resp, j, cur)
             ELSE IF ins.k = "invalid" \/ j > Len(resp) THEN <<>>
             ELSE LET r == resp[j]
                      v == IF ins.k = "read" THEN r.val
                           ELSE IF ins.k = "write" THEN ins.val
                           ELSE (cur \div 8) * 8 + ins.val
                      e == Entry(IF ins.k = "read" THEN "read" ELSE "write",
                                 ins.reg, v, r.ok)
                  IN  IF r.ok
                      THEN <<e>> \o Replay(prog, i + 1, resp, j + 1,
                                            IF ins.k = "read" THEN r.val ELSE cur)
                      ELSE <<e>>

\* the outcome of prog under the same responses; "none" while it waits for
\* a response that resp does not hold yet
RECURSIVE ReplayResult(_, _, _, _)
ReplayResult(prog, i, resp, j) ==
    IF i > Len(prog) THEN "Ok"
    ELSE IF prog[i].k = "wait" THEN ReplayResult(prog, i + 1, resp, j)
    ELSE IF prog[i].k = "invalid" THEN "InvalidParameter"
    ELSE IF j > Len(resp) THEN "none"
    ELSE IF resp[j].ok THEN ReplayResult(prog, i + 1, resp, j + 1)
    ELSE "I2c"

SameAsOtherStrategy ==
    LET prog == Code(OtherStrategy, op, motor_type)
        t == NoWaits(trace)
    IN  /\ t = Replay(prog, 1, t, 1, 0)
        /\ Done => result = ReplayResult(prog, 1, t, 1)
        /\ \A i \in 1..Len(trace) : trace[i].k = "wait" => strategy = "async"

\* C7 (as amended): every operation that both strategies offer (all but
\* auto_calibrate and play_custom_heartbeat, which only the async driver has,
\* and start_custom_heartbeat, which only the blocking driver has) issues,
\* for the same arguments and the same device responses, the same register
\* transactions in the same order and returns the same outcome in both;
\* only the async driver waits.
C7_SharedOpsAgree ==
    op.name \in SharedOps => SameAsOtherStrategy

\* C7 as stated: every operation called is offered by both strategies and
\* behaves the same in both, calibration and the real-time heartbeat
\* included.
C7_AllOpsInBothStrategies ==
    op.name # "none" => (op.name \in SharedOps /\ SameAsOtherStrategy)

\* the async init ran to its end with its 2 ms wait, which the blocking init
\* does not have
C7_Witness ==
    /\ strategy = "async"
    /\ op.name = "init" /\ Succeeded
    /\ Len(trace) = 5
    /\ Sig(trace[2]) = <<"wait", 0, 2>>

BeatExpected(j, p) ==
    CASE j = 0 -> <<"write", 2, p.s1_amplitude>>
      [] j = 1 -> <<"wait", 0, 50>>
      [] j = 2 -> <<"write", 2, p.s1_amplitude \div 2>>
      [] j = 3 -> <<"wait", 0, 30>>
      [] j = 4 -> <<"write", 2, 0>>
      [] j = 5 -> <<"wait", 0, systole_ms - 80>>
      [] j = 6 -> <<"write", 2, p.s2_amplitude>>
      [] j = 7 -> <<"wait", 0, 40>>
      [] j = 8 -> <<"write", 2, 0>>
      [] j = 9 -> <<"wait", 0, diastole_ms - 40>>

\* C8: what play_custom_heartbeat issues is the read and the write of the
\* mode register (low 3 bits 5, RealTimePlayback), once, and then only
\* repetitions of the cycle: s1_amplitude to 0x02, wait 50, s1_amplitude/2,
\* wait 30, 0, wait systole_ms - 80, s2_amplitude, wait 40, 0, wait
\* diastole_ms - 40; the counter of completed cycles advances by one every
\* ten steps.
C8_HeartbeatCycle ==
    op.name = "play_custom_heartbeat" =>
        /\ \A i \in 1..Len(trace) :
             IF i = 1 THEN trace[i].k = "read" /\ trace[i].reg = 1
             ELSE IF i = 2
             THEN /\ trace[i].k = "write" /\ trace[i].reg = 1
                  /\ trace[i].val % 8 = 5
                  /\ trace[i].val \div 8 = trace[1].val \div 8
             ELSE Sig(trace[i]) = BeatExpected((i - 3) % 10, op.pattern)
        /\ (at = "beat" /\ AllOk) =>
             /\ cycles = (Len(trace) - 2) \div 10
             /\ pc = ((Len(trace) - 2) % 10) + 1

\* the second cycle of a heartbeat at 70 bpm is under way
C8_Witness ==
    /\ op.name = "play_custom_heartbeat"
    /\ op.pattern = DefaultPattern
    /\ at = "beat" /\ cycles = 1
    /\ Len(trace) = 15
    /\ Sig(trace[8]) = <<"wait", 0, 262>>
    /\ Sig(trace[12]) = <<"wait", 0, 475>>
    /\ Sig(trace[15]) = <<"write", 2, 48>>

\* C9: play_custom_heartbeat stops only by returning the transport error of
\* a failed transaction: it never returns Ok and never ends on its own.
C9_StopsOnlyOnTransportError ==
    (op.name = "play_custom_heartbeat" /\ at \in {"done", "panicked"}) =>
        /\ result = "I2c"
        /\ trace # <<>> /\ ~trace[Len(trace)].ok

TimingDerived == at = "beat" \/ cycle_ms # 0
PastTiming ==
    /\ at \notin {"run", "timing"}
    /\ Len(trace) >= 2 /\ trace[2].ok

\* C10 (as amended): for every bpm >= 1 the timing is cycle_ms = 60000 / bpm
\* (integer division), systole_ms = 0.4 * cycle_ms truncated toward zero
\* (floor(2 * cycle_ms / 5)), diastole_ms = cycle_ms - systole_ms; for bpm = 0
\* the division panics and no timing is derived.
C10_TimingTruncated ==
    op.name = "play_custom_heartbeat" =>
        IF op.pattern.bpm = 0
        THEN /\ ~TimingDerived
             /\ PastTiming => at = "panicked"
        ELSE /\ PastTiming => TimingDerived
             /\ TimingDerived =>
                  /\ cycle_ms = 60000 \div op.pattern.bpm
                  /\ systole_ms = (2 * cycle_ms) \div 5
                  /\ diastole_ms = cycle_ms - systole_ms

\* C10 as stated: wherever the timing is derived, systole_ms is 0.4 * cycle_ms
\* rounded to the nearest integer.
C10_TimingRounded ==
    (op.name = "play_custom_heartbeat" /\ TimingDerived) =>
        /\ cycle_ms = 60000 \div op.pattern.bpm
        /\ systole_ms = (4 * cycle_ms + 5) \div 10
        /\ diastole_ms = cycle_ms - systole_ms

\* at 70 bpm the loop runs with 857 / 342 / 515, where rounding gives 343
C10_Witness ==
    /\ op.name = "play_custom_heartbeat"
    /\ op.pattern.bpm = 70
    /\ at = "beat"
    /\ cycle_ms = 857 /\ systole_ms = 342 /\ diastole_ms = 515

----------------------------------------------------------------------------
(* Heartbeat timing over the bpm range of a HeartbeatPattern (bpm: u8).    *)

HeartbeatOp == op.name = "play_custom_heartbeat"
Waits == SelectSeq(trace, LAMBDA e : e.k = "wait")
NoNegativeWait == \A i \in 1..Len(trace) : trace[i].k = "wait" => trace[i].val >= 0

\* C11: at 70 bpm, the bpm of the default pattern, the timing is 857 / 342 /
\* 515 ms and both rests, systole_ms - 80 and diastole_ms - 40, are
\* non-negative: the loop waits 262 ms and 475 ms.
C11_DefaultTiming ==
    /\ DefaultPattern.bpm = 70
    /\ (HeartbeatOp /\ op.pattern.bpm = 70) =>
          /\ PastTiming => TimingDerived
          /\ TimingDerived =>
               /\ cycle_ms = 857 /\ systole_ms = 342 /\ diastole_ms = 515
               /\ systole_ms - 80 >= 0 /\ diastole_ms - 40 >= 0
          /\ NoNegativeWait
          /\ at # "panicked"
          /\ \A i \in 1..Len(Waits) :
               Waits[i].val = CASE i % 5 = 1 -> 50
                                [] i % 5 = 2 -> 30
                                [] i % 5 = 3 -> 262
                                [] i % 5 = 4 -> 40
                                [] OTHER -> 475

\* two whole cycles of the default pattern were played with these rests
C11_Witness ==
    /\ HeartbeatOp
    /\ op.pattern = DefaultPattern
    /\ cycles = 2
    /\ Len(Waits) = 10
    /\ Waits[8].val = systole_ms - 80 /\ Waits[8].val = 262
    /\ Waits[10].val = diastole_ms - 40 /\ Waits[10].val = 475

\* C12 (as amended): bpm is a u8, so cycle_ms is at least 60000 / 255 = 235;
\* for every bpm 1..255 systole_ms >= 94 and diastole_ms >= 141, both rests
\* are positive, no subtraction goes below zero and no wait is negative.
C12_NoRestUnderflows ==
    HeartbeatOp =>
        /\ TimingDerived =>
             /\ op.pattern.bpm \in 1..255
             /\ cycle_ms >= 235
             /\ systole_ms >= 94 /\ diastole_ms >= 141
             /\ systole_ms > 80 /\ diastole_ms > 40
        /\ NoNegativeWait
        /\ at = "panicked" => op.pattern.bpm = 0

\* C12 as stated: for a sufficiently high bpm that a pattern can hold (from
\* 211 up, the larger of the two thresholds named) one of the rests is
\* negative.
C12_HighBpmUnderflows ==
    (HeartbeatOp /\ TimingDerived /\ op.pattern.bpm >= 211) =>
        (systole_ms - 80 < 0 \/ diastole_ms - 40 < 0)

\* the highest bpm, 255, plays a whole cycle with rests of 14 and 101 ms
C12_Witness ==
    /\ HeartbeatOp
    /\ op.pattern.bpm = 255
    /\ cycles >= 1
    /\ cycle_ms = 235 /\ systole_ms = 94 /\ diastole_ms = 141
    /\ Waits[3].val = 14 /\ Waits[5].val = 101

\* C13: play_custom_heartbeat validates bpm: the loop runs only with a bpm in
\* 40..160 (given, or clamped to it) and the call never ends in the panic of
\* a division by zero.
C13_BpmValidated ==
    HeartbeatOp =>
        /\ at # "panicked"
        /\ TimingDerived =>
             /\ cycle_ms \in (60000 \div 160)..(60000 \div 40)
             /\ (op.pattern.bpm \in 40..160 \/ result \in {"InvalidParameter"})

----------------------------------------------------------------------------
(* Voltage settings. *)

VoltageOp == op.name \in {"set_rated_voltage", "set_overdrive_voltage"}
VoltageRegister ==
    IF op.name = "set_rated_voltage" THEN RATED_VOLTAGE ELSE OVERDRIVE_CLAMP_VOLTAGE

\* C14: for every mv of the 16-bit range, set_rated_voltage(mv) issues exactly
\* one write, of floor(mv * 255 / 5600), to register 0x16 and
\* set_overdrive_voltage(mv) the same value to register 0x17.
C14_VoltageByte ==
    (VoltageOp /\ Done) =>
        /\ Len(trace) = 1
        /\ Sig(trace[1]) = <<"write", VoltageRegister, (op.mv * 255) \div 5600>>
        /\ trace[1].ok => regs[VoltageRegister] = (op.mv * 255) \div 5600

----------------------------------------------------------------------------
(* Motor type and initialisation. *)

MotorOp == op.name \in {"init", "set_motor_type"}
FeedbackOf(mt) == IF mt = "LRA" THEN 128 ELSE 0
LibraryOf(mt) == IF mt = "LRA" THEN LibraryLRA ELSE LibraryB
WritesTo(reg) == SelectSeq(trace, LAMBDA e : e.k = "write" /\ e.reg = reg)

\* C15: set_motor_type issues exactly two writes, feedback-control first and
\* library selection second (LRA: 0x80 then 6, ERM: 0x00 then 2).  When an
\* init or a set_motor_type has completed successfully, whatever was called
\* before it, the chip's (feedback-control, library) pair is the pair of the
\* driver's motor type, and the call wrote each of the two registers once,
\* one right after the other; no call writes the library without having
\* written feedback-control just before.
C15_MotorTypePair ==
    MotorOp =>
        /\ Succeeded =>
             LET n == Len(trace) IN
             /\ n >= 2
             /\ op.name = "set_motor_type" =>
                  /\ n = 2
                  /\ motor_type = op.motor_type
             /\ Sig(trace[n - 1]) = <<"write", FEEDBACK_CONTROL, FeedbackOf(motor_type)>>
             /\ Sig(trace[n]) = <<"write", LIBRARY_SELECTION, LibraryOf(motor_type)>>
             /\ regs[FEEDBACK_CONTROL] = FeedbackOf(motor_type)
             /\ regs[LIBRARY_SELECTION] = LibraryOf(motor_type)
             /\ Len(WritesTo(FEEDBACK_CONTROL)) = 1
             /\ Len(WritesTo(LIBRARY_SELECTION)) = 1
        /\ \A i \in 1..Len(trace) :
             trace[i].reg = LIBRARY_SELECTION =>
                 /\ i > 1
                 /\ trace[i - 1].reg = FEEDBACK_CONTROL
                 /\ trace[i - 1].ok

\* a second call switched a driver to ERM: the chip holds (0x00, 2)
C15_Witness ==
    /\ op.name = "set_motor_type" /\ op.motor_type = "ERM"
    /\ nops = 2
    /\ Succeeded
    /\ motor_type = "ERM"
    /\ regs[FEEDBACK_CONTROL] = 0 /\ regs[LIBRARY_SELECTION] = LibraryB
    /\ Len(trace) = 2

----------------------------------------------------------------------------
(* Clearing the sequencer. *)

SlotRegisters == WAVEFORM_SEQUENCER_1..WAVEFORM_SEQUENCER_8

\* C16: clear_waveform_sequence issues only writes of 0, the i-th of them to
\* address 0x04 + (i - 1); when none fails there are exactly 8 and all slots
\* hold 0; when the k-th fails the call ends there with the transport error,
\* the k - 1 slots before it hold 0 and slot k and the later ones still hold
\* what they held before the call.
C16_ClearInOrder ==
    op.name = "clear_waveform_sequence" =>
        /\ Len(trace) <= 8
        /\ \A i \in 1..Len(trace) :
             Sig(trace[i]) = <<"write", WAVEFORM_SEQUENCER_1 + (i - 1), 0>>
        /\ Succeeded <=> (Len(trace) = 8 /\ AllOk)
        /\ Succeeded => \A r \in SlotRegisters : regs[r] = 0
        /\ (Done /\ ~Succeeded) =>
             LET k == Len(trace) IN
             /\ result = "I2c"
             /\ k >= 1 /\ ~trace[k].ok
             /\ \A i \in 1..(k - 1) : trace[i].ok
             /\ \A r \in SlotRegisters :
                  regs[r] = IF r < WAVEFORM_SEQUENCER_1 + (k - 1)
                            THEN 0 ELSE SlotFill(r)

\* the 4th write failed: slots 0..2 cleared, slots 3..7 as before
C16_Witness ==
    /\ op.name = "clear_waveform_sequence"
    /\ Done /\ result = "I2c"
    /\ Len(trace) = 4
    /\ regs[WAVEFORM_SEQUENCER_1 + 2] = 0
    /\ regs[WAVEFORM_SEQUENCER_1 + 3] = SlotFill(WAVEFORM_SEQUENCER_1 + 3)
    /\ regs[WAVEFORM_SEQUENCER_8] = SlotFill(WAVEFORM_SEQUENCER_8)


\* what init issues on a driver of motor type mt in strategy s
InitExpected(s, mt) ==
    <<<<"write", MODE, 128>>>>
    \o (IF s = "async" THEN <<<<"wait", 0, 2>>>> ELSE <<>>)
    \o <<<<"write", MODE, 0>>,
         <<"write", FEEDBACK_CONTROL, FeedbackOf(mt)>>,
         <<"write", LIBRARY_SELECTION, LibraryOf(mt)>>>>

\* C17: init issues four writes in this order: MODE <- 0x80 (reset),
\* MODE <- 0x00 (standby exit), feedback-control and library selection,
\* (0x80, 6) for LRA, the motor type of a new driver, and (0x00, 2) for ERM;
\* the async strategy waits 2 ms between the reset and the standby exit, and
\* the blocking strategy waits nowhere.
C17_InitOrder ==
    op.name = "init" =>
        LET expected == InitExpected(strategy, motor_type) IN
        /\ nops = 1 => motor_type = "LRA"
        /\ Len(trace) <= Len(expected)
        /\ \A i \in 1..Len(trace) : Sig(trace[i]) = expected[i]
        /\ Succeeded <=> (Len(trace) = Len(expected) /\ AllOk)
        /\ Succeeded =>
             /\ Len(NoWaits(trace)) = 4
             /\ Len(Waits) = (IF strategy = "async" THEN 1 ELSE 0)
             /\ regs[MODE] = 0

\* an async driver switched to ERM was initialised: reset, 2 ms, standby
\* exit, 0x00, library 2
C17_Witness ==
    /\ op.name = "init"
    /\ strategy = "async"
    /\ motor_type = "ERM"
    /\ Succeeded
    /\ Len(trace) = 5
    /\ Sig(trace[2]) = <<"wait", 0, 2>>
    /\ Sig(trace[5]) = <<"write", LIBRARY_SELECTION, LibraryB>>

----------------------------------------------------------------------------
(* The library heartbeat. *)

\* what play_heartbeat_builtin issues when the MODE register held cur
HeartbeatBuiltinExpected(cur) ==
    <<<<"read", MODE, cur>>, <<"write", MODE, (cur \div 8) * 8>>>>
    \o [i \in 1..8 |-> <<"write", 3 + i, 0>>]
    \o <<<<"write", 4, 1>>, <<"write", 5, 129>>, <<"write", 6, 2>>,
         <<"write", 7, 180>>, <<"write", 8, 0>>,
         <<"write", GO, 1>>>>

IsWaitCommand(b) == b \in 128..255

\* C18: play_heartbeat_builtin sets the mode to InternalTrigger, clears the
\* 8 slots, writes slots 0..4 in order with effect 1, a wait command, effect
\* 2, a wait command and the terminator 0, then writes GO = 1 once, as its
\* last transaction, and returns; when GO is written the slots hold that
\* sequence and slots 5..7 hold 0.
C18_BuiltinHeartbeat ==
    op.name = "play_heartbeat_builtin" =>
        LET expected == HeartbeatBuiltinExpected(FirstByteRead) IN
        /\ Len(trace) <= 16
        /\ \A i \in 1..Len(trace) : trace[i].ok => Sig(trace[i]) = expected[i]
        /\ \A i \in 1..Len(trace) :
             /\ trace[i].k = expected[i][1]
             /\ trace[i].reg = expected[i][2]
        /\ Succeeded <=> (Len(trace) = 16 /\ AllOk)
        /\ Len(WritesTo(GO)) <= 1
        /\ \A i \in 1..Len(trace) : trace[i].reg = GO => i = 16
        /\ (Len(trace) = 16 /\ trace[16].ok) =>
             /\ Succeeded
             /\ regs[MODE] % 8 = InternalTrigger
             /\ regs[4] = 1
             /\ IsWaitCommand(regs[5])
             /\ regs[6] = 2
             /\ IsWaitCommand(regs[7])
             /\ regs[8] = 0
             /\ regs[9] = 0 /\ regs[10] = 0 /\ regs[11] = 0

\* GO was written over a chip that held an earlier sequence in all 8 slots
C18_Witness ==
    /\ op.name = "play_heartbeat_builtin"
    /\ Succeeded
    /\ Len(trace) = 16
    /\ Sig(trace[16]) = <<"write", GO, 1>>
    /\ regs[GO] = 1
    /\ regs[5] = 129 /\ regs[7] = 180
    /\ SlotFill(11) # 0 /\ regs[11] = 0

----------------------------------------------------------------------------
(* One operation at a time. *)

\* a step that issues a transaction or a wait
Issues == trace' # trace /\ trace' # <<>>
\* a step that begins an operation
Begins == nops' # nops

----------------------------------------------------------------------------
(* Local state and queries. *)

\* the entry a step adds to the trace
Issued == trace'[Len(trace')]

\* C20: the motor type is the driver's only state: it changes only when
\* set_motor_type is called, to the type given, and no step of any other
\* operation changes it.  Nothing of the chip is cached: every read the
\* driver issues returns what the register holds at that moment, set_mode
\* computes its write from the read it has just made, is_playing is one read
\* of GO and returns whether bit 0 of that byte is set, get_device_id is one
\* read of STATUS and returns bits 5-7 of that byte.
C20_OnlyMotorTypeIsState ==
    /\ [][/\ motor_type' # motor_type =>
               (Begins /\ op'.name = "set_motor_type")
          /\ (Begins /\ op'.name = "set_motor_type") =>
               motor_type' = op'.motor_type
          /\ (Issues /\ Issued.k = "read" /\ Issued.ok) =>
               Issued.val = regs[Issued.reg]]_vars
    /\ [](/\ op.name = "is_playing" =>
               /\ Len(trace) <= 1
               /\ Done => (Len(trace) = 1 /\ trace[1].k = "read" /\ trace[1].reg = GO)
               /\ Succeeded => retval = trace[1].val % 2
          /\ op.name = "get_device_id" =>
               /\ Len(trace) <= 1
               /\ Done => (Len(trace) = 1 /\ trace[1].k = "read"
                           /\ trace[1].reg = STATUS)
               /\ Succeeded => retval = (trace[1].val \div 32) % 8
          /\ op.name = "set_mode" =>
               /\ Len(trace) >= 1 => (trace[1].k = "read" /\ trace[1].reg = MODE)
               /\ Succeeded =>
                    trace[2].val = (trace[1].val \div 8) * 8 + op.mode)

\* a driver switched to ERM then read the device id 5 from STATUS 0xA8, and
\* its motor type is still ERM
C20_Witness ==
    /\ op.name = "get_device_id"
    /\ nops = 2
    /\ Succeeded
    /\ trace[1].val = 168 /\ retval = 5
    /\ motor_type = "ERM"

----------------------------------------------------------------------------
(* The order of calibration. *)

IsGoPoll(e) == e.k = "read" /\ e.reg = GO
IsStatusRead(e) == e.k = "read" /\ e.reg = STATUS
IsWait(e) == e.k = "wait"

\* C21: auto_calibrate issues: the read and the write of MODE (upper 5 bits
\* kept, low 3 bits 7), GO <- 1, then polls of GO, then at most one read of
\* STATUS, which is its last transaction.  A poll is followed by one 10 ms
\* wait and the next poll, or by the status read, or by nothing; a wait comes
\* only after a poll that saw GO set; there are at most 100 waits; the status
\* read comes only right after a poll that saw GO clear.
C21_CalibrationOrder ==
    op.name = "auto_calibrate" =>
        LET n == Len(trace) IN
        /\ \A i \in 1..(n - 1) : trace[i].ok
        /\ n >= 1 => Sig(trace[1])[1] = "read" /\ trace[1].reg = MODE
        /\ n >= 2 => Sig(trace[2]) =
                        <<"write", MODE, (trace[1].val \div 8) * 8 + 7>>
        /\ n >= 3 => Sig(trace[3]) = <<"write", GO, 1>>
        /\ n >= 4 => IsGoPoll(trace[4])
        /\ \A i \in 4..n :
             /\ IsGoPoll(trace[i]) \/ IsWait(trace[i]) \/ IsStatusRead(trace[i])
             /\ (IsGoPoll(trace[i]) /\ i > 4) => IsWait(trace[i - 1])
             /\ IsWait(trace[i]) =>
                  /\ trace[i].val = 10
                  /\ IsGoPoll(trace[i - 1])
                  /\ trace[i - 1].val % 2 = 1
             /\ (IsWait(trace[i]) /\ i < n) => IsGoPoll(trace[i + 1])
             /\ IsStatusRead(trace[i]) =>
                  /\ i = n
                  /\ IsGoPoll(trace[i - 1])
                  /\ trace[i - 1].val % 2 = 0
        /\ Len(Waits) <= 100
        /\ Cardinality(StatusReads) <= 1
        /\ Succeeded => (n >= 5 /\ IsStatusRead(trace[n]))

\* a calibration that the chip ended during the second wait: three polls,
\* two waits, the status read, Ok
C21_Witness ==
    /\ op.name = "auto_calibrate"
    /\ Succeeded
    /\ Len(trace) = 9
    /\ Cardinality(GoPolls) = 3
    /\ Len(Waits) = 2
    /\ StatusReads = {9}

\* the budget was used up: 100 waits, and no status read
C21_WitnessBudget ==
    /\ op.name = "auto_calibrate"
    /\ Done
    /\ Len(Waits) = 100
    /\ StatusReads = {}

----------------------------------------------------------------------------
(* The wait commands of the library heartbeat. *)

\* the wait a slot byte with its top bit set stands for: its low 7 bits, in
\* units of 10 ms
WaitCommandMs(b) == (b % 128) * 10

\* C22: when play_heartbeat_builtin has written its sequence, slot 3 holds a
\* wait command of 340 ms and slot 1 a wait command within 0..1270 ms.
C22_Slot3Waits340ms ==
    (op.name = "play_heartbeat_builtin" /\ Succeeded) =>
        /\ IsWaitCommand(regs[5])
        /\ WaitCommandMs(regs[5]) \in 0..1270
        /\ IsWaitCommand(regs[7])
        /\ WaitCommandMs(regs[7]) = 340

\* what the code does write: slot 1 waits 10 ms, slot 3 waits 520 ms
C22_Slot3Waits520ms ==
    (op.name = "play_heartbeat_builtin" /\ Succeeded) =>
        /\ regs[5] = 129 /\ WaitCommandMs(regs[5]) = 10
        /\ regs[7] = 180 /\ WaitCommandMs(regs[7]) = 520

----------------------------------------------------------------------------
(* The period of the heartbeat loop. *)

\* the waits of the k-th cycle, added up
CycleWaitSum(k) ==
    Waits[5 * k - 4].val + Waits[5 * k - 3].val + Waits[5 * k - 2].val
    + Waits[5 * k - 1].val + Waits[5 * k].val

\* C23: in every completed cycle of play_custom_heartbeat the five waits
\* (50, 30, systole_ms - 80, 40, diastole_ms - 40) add up to cycle_ms, which
\* is 60000 / bpm; no rest is negative for any bpm a pattern holds.
C23_WaitsSumToCycle ==
    (HeartbeatOp /\ TimingDerived) =>
        /\ cycle_ms = 60000 \div op.pattern.bpm
        /\ 50 + 30 + (systole_ms - 80) + 40 + (diastole_ms - 40) = cycle_ms
        /\ systole_ms - 80 >= 0 /\ diastole_ms - 40 >= 0
        /\ \A k \in 1..(Len(Waits) \div 5) : CycleWaitSum(k) = cycle_ms
        /\ cycles <= Len(Waits) \div 5

\* at 11 bpm, where truncation and rounding of the systole differ, a whole
\* cycle was waited: 50 + 30 + 2101 + 40 + 3233 = 5454
C23_Witness ==
    /\ HeartbeatOp
    /\ op.pattern.bpm = 11
    /\ cycles >= 1
    /\ cycle_ms = 5454
    /\ Waits[3].val = 2101 /\ Waits[5].val = 3233
    /\ CycleWaitSum(1) = 5454

----------------------------------------------------------------------------
(* Reset and standby. *)

StandbyOps == {"reset", "exit_standby", "enter_standby"}
StandbyByte ==
    CASE op.name = "reset" -> 128
      [] op.name = "exit_standby" -> 0
      [] op.name = "enter_standby" -> 64
      [] OTHER -> 0

\* C24: reset, exit_standby and enter_standby each issue one write to MODE,
\* of 0x80, 0x00 and 0x40, and no read; when the write went through the
\* register holds that byte, so its low 3 bits are 0 (InternalTrigger)
\* whatever mode was selected before.
C24_StandbyOverwritesMode ==
    op.name \in StandbyOps =>
        /\ Len(trace) <= 1
        /\ Done <=> Len(trace) = 1
        /\ Len(trace) = 1 => Sig(trace[1]) = <<"write", MODE, StandbyByte>>
        /\ \A i \in 1..Len(trace) : trace[i].k # "read"
        /\ Succeeded =>
             /\ regs[MODE] = StandbyByte
             /\ regs[MODE] % 8 = InternalTrigger

\* any step that completes one of the three on a chip in RealTimePlayback
\* leaves it out of RealTimePlayback
C24_ModeDoesNotSurvive ==
    [][(op.name \in StandbyOps /\ regs[MODE] % 8 = RealTimePlayback
        /\ ~Done /\ Done' /\ result' = "Ok")
       => regs'[MODE] % 8 = 0]_vars

\* RealTimePlayback was selected by set_mode and the enter_standby after it
\* left the register at 0x40
C24_Witness ==
    /\ op.name = "enter_standby"
    /\ nops = 2
    /\ Succeeded
    /\ regs[MODE] = 64
    /\ regs[MODE] % 8 # RealTimePlayback

----------------------------------------------------------------------------
(* set_motor_type when a write fails. *)

SetMotorType == op.name = "set_motor_type"
\* a step of set_motor_type that issues its i-th write, which goes through
\* or fails
MotorWrite(i, ok) ==
    /\ SetMotorType /\ Issues
    /\ Len(trace') = i
    /\ Issued.ok = ok

\* C25: from the moment set_motor_type(T) is called the driver's motor type
\* is T, before any write and whether the first or the second write fails.
\* A failed first write leaves the chip as it was; a second write that fails
\* leaves the chip with T's feedback-control value and the library it had.
\* An init called after the failed set_motor_type runs with motor type T and
\* writes T's feedback-control value and library.
C25_MotorTypeRecordedFirst ==
    /\ [](/\ SetMotorType => motor_type = op.motor_type
          /\ (SetMotorType /\ Done /\ result = "I2c") =>
               /\ Len(trace) \in {1, 2}
               /\ ~trace[Len(trace)].ok
               /\ Len(trace) = 2 =>
                    regs[FEEDBACK_CONTROL] = FeedbackOf(op.motor_type)
          /\ op.name = "init" =>
               \A i \in 1..Len(trace) :
                   /\ trace[i].reg = FEEDBACK_CONTROL =>
                        trace[i].val = FeedbackOf(motor_type)
                   /\ trace[i].reg = LIBRARY_SELECTION =>
                        trace[i].val = LibraryOf(motor_type))
    /\ [][/\ (Begins /\ op'.name = "set_motor_type") =>
               (motor_type' = op'.motor_type /\ trace' = <<>> /\ regs' = regs)
          /\ MotorWrite(1, FALSE) => regs' = regs
          /\ MotorWrite(1, TRUE) =>
               regs' = [regs EXCEPT ![FEEDBACK_CONTROL] = FeedbackOf(op.motor_type)]
          /\ MotorWrite(2, FALSE) =>
               /\ regs' = regs
               /\ regs'[FEEDBACK_CONTROL] = FeedbackOf(op.motor_type)
               /\ result' = "I2c"
               /\ motor_type' = op.motor_type
          /\ (Begins /\ op'.name = "init" /\ SetMotorType /\ result = "I2c") =>
               motor_type' = op.motor_type
          /\ (op.name = "init" /\ ~Begins) => motor_type' = motor_type]_vars

\* an initialised LRA driver was switched to ERM and the second write failed:
\* the chip holds feedback-control 0x00 with library 6, the driver says ERM
C25_Witness ==
    /\ SetMotorType /\ op.motor_type = "ERM"
    /\ nops = 2
    /\ Done /\ result = "I2c"
    /\ Len(trace) = 2
    /\ motor_type = "ERM"
    /\ regs[FEEDBACK_CONTROL] = 0
    /\ regs[LIBRARY_SELECTION] = LibraryLRA

\* an init after a set_motor_type(ERM) configured the chip for ERM
C25_WitnessInit ==
    /\ op.name = "init"
    /\ nops = 2
    /\ Succeeded
    /\ motor_type = "ERM"
    /\ regs[FEEDBACK_CONTROL] = 0
    /\ regs[LIBRARY_SELECTION] = LibraryB

====
